---- MODULE Spec2Model ----
(***************************************************************************)
(* Model of autometrics-rs:                                                *)
(*   - the attribute-argument parser (autometrics-macros/src/parse.rs):    *)
(*     Args::parse, ExprArg::parse, Alerts::parse, Latency::parse and      *)
(*     IntOrFloat::parse, over token streams;                              *)
(*   - the OpenTelemetry tracker (autometrics/src/tracker/                 *)
(*     opentelemetry.rs): start and finish, with the gauge instrument and  *)
(*     the emissions each call makes.                                      *)
(* Error messages are written without the back-quotes the code puts        *)
(* around token names.                                                     *)
(***************************************************************************)
EXTENDS Integers, Sequences, FiniteSets, TLC

VARIABLES
    \* ---- Args::parse ----
    alerts_feature,  \* cfg(feature = "alerts") of the build
    source,          \* the argument list handed to Args::parse, as a list of arguments
    input,           \* ParseStream: the tokens not yet consumed
    args,            \* the Args value under construction
    result,          \* "parsing", "ok" (Ok(args)) or the message of the Err returned
    \* ---- Alerts::parse ----
    asource,         \* the entries written between the parentheses of alerts(...)
    content,         \* the parenthesized ParseStream: tokens not yet consumed
    alerts,          \* the Alerts value under construction
    aresult,         \* "parsing", "ok" or the message of the Err returned
    \* ---- OpenTelemetryTracker ----
    now,             \* the clock Instant::now() reads
    trackers,        \* the tracker handles, by caller
    gauge,           \* the concurrency up-down counter, by label set
    emitted          \* the instrument calls each caller's tracker has made

argsVars == <<alerts_feature, source, input, args, result>>
alertsVars == <<asource, content, alerts, aresult>>
trackerVars == <<now, trackers, gauge, emitted>>
vars == <<argsVars, alertsVars, trackerVars>>

---------------------------------------------------------------------------
\* Bounds of the model.

\* Longest argument list handed to Args::parse (arguments and commas).
MaxArgs == 3
\* Longest entry list written inside alerts(...) (entries and commas).
MaxEntries == 3
\* Number of concurrent callers of the tracker.
MaxCallers == 2

---------------------------------------------------------------------------
\* Tokens.  A token is an identifier (custom keywords are identifiers with a
\* reserved name), a punctuation mark, a numeric literal (LitInt or LitFloat:
\* decimal digits m * 10^-sc and a lexical suffix) or a parenthesized group.

Tok(k, v, m, sc, suf, toks) ==
    [k |-> k, v |-> v, m |-> m, sc |-> sc, suf |-> suf, toks |-> toks]
Ident(name) == Tok("ident", name, 0, 0, "", <<>>)
Punct(p) == Tok("punct", p, 0, 0, "", <<>>)
LitInt(m, suf) == Tok("int", "", m, 0, suf, <<>>)
LitFloat(m, sc, suf) == Tok("float", "", m, sc, suf, <<>>)
Group(toks) == Tok("group", "", 0, 0, "", toks)

\* Option<T>: None is <<>>, Some(x) is <<x>>.
None == <<>>
Some(x) == <<x>>
is_some(o) == o # <<>>

\* The state of one parse call: what is left of the stream, the value under
\* construction and the outcome so far.
PState(rest, value, res) == [rest |-> rest, value |-> value, res |-> res]

\* lookahead.peek / input.peek of a custom keyword or of a punctuation token.
peek_kw(stream, name) ==
    stream # <<>> /\ Head(stream).k = "ident" /\ Head(stream).v = name
peek_punct(stream, p) ==
    stream # <<>> /\ Head(stream).k = "punct" /\ Head(stream).v = p
peek_kind(stream, k) ==
    stream # <<>> /\ Head(stream).k = k

\* Lookahead1::error(): the message lists the peeks that failed on this
\* lookahead; with none recorded it is "unexpected token" (or end of input).
RECURSIVE JoinNames(_)
JoinNames(names) ==
    IF Len(names) = 1 THEN names[1]
    ELSE names[1] \o ", " \o JoinNames(Tail(names))
LookaheadError(stream, failed) ==
    CASE Len(failed) = 0 ->
            IF stream = <<>> THEN "unexpected end of input" ELSE "unexpected token"
      [] Len(failed) = 1 -> "expected " \o failed[1]
      [] Len(failed) = 2 -> "expected " \o failed[1] \o " or " \o failed[2]
      [] OTHER -> "expected one of: " \o JoinNames(failed)

\* input.parse::<Token![p]>()?: the stream after the token, or the error.
parse_punct(stream, p) ==
    IF peek_punct(stream, p) THEN PState(Tail(stream), None, "ok")
    ELSE IF stream = <<>>
         THEN PState(stream, None, "unexpected end of input, expected " \o p)
         ELSE PState(stream, None, "expected " \o p)

\* syn::parenthesized!(content in input): the group's tokens as value.
parenthesized(stream) ==
    IF peek_kind(stream, "group")
    THEN PState(Tail(stream), Head(stream).toks, "ok")
    ELSE IF stream = <<>>
         THEN PState(stream, <<>>, "unexpected end of input, expected parentheses")
         ELSE PState(stream, <<>>, "expected parentheses")

---------------------------------------------------------------------------
\* rust_decimal::Decimal: an integer mantissa m scaled by 10^-sc.  Division is
\* exact whenever the quotient has a finite decimal expansion, which is the
\* case for the divisors 100 and 1000 the parser uses.

Pow10(n) == IF n = 0 THEN 1 ELSE IF n = 1 THEN 10 ELSE IF n = 2 THEN 100
            ELSE IF n = 3 THEN 1000 ELSE IF n = 4 THEN 10000 ELSE 100000
Decimal(m, sc) == [m |-> m, sc |-> sc]
Decimal_from(n) == Decimal(n, 0)
RECURSIVE DivScaled(_, _, _)
DivScaled(num, den, j) ==
    IF (num * Pow10(j)) % den = 0 THEN <<(num * Pow10(j)) \div den, j>>
    ELSE DivScaled(num, den, j + 1)
\* a / b
Quotient(q, sc) == Decimal(q[1], sc + q[2])
DecimalDiv(a, b) == Quotient(DivScaled(a.m * Pow10(b.sc), b.m, 0), a.sc)
\* a == b (Decimal's PartialEq compares the numbers, not the representations)
DecimalEq(a, b) == a.m * Pow10(b.sc) = b.m * Pow10(a.sc)

---------------------------------------------------------------------------
\* mod alerts

Seconds == "Seconds"
Milliseconds == "Milliseconds"

\* LitInt / LitFloat::base10_parse::<Decimal>()
base10_parse(lit) == Decimal(lit.m, lit.sc)

\* match suffix.as_str(): the suffixes that name a unit (or none), and the
\* Option<Unit> each gives; any other suffix is the `_` arm.
SuffixMatches(suffix) == suffix \in {"", "ms", "s"}
UnitOfSuffix(suffix) ==
    CASE suffix = "ms" -> Some(Milliseconds)
      [] suffix = "s" -> Some(Seconds)
      [] OTHER -> None

\* impl Parse for IntOrFloat.  value is <<Decimal, Option<Unit>>>.  The error
\* of the `_` arm comes from the lookahead taken before the literal was read:
\* it lists the peeks that failed there (none for a LitInt).
IntOrFloat_parse(stream) ==
    IF peek_kind(stream, "int") \/ peek_kind(stream, "float")
    THEN IF ~ SuffixMatches(Head(stream).suf)
         THEN PState(Tail(stream), None,
                     LookaheadError(stream, IF peek_kind(stream, "int") THEN <<>>
                                            ELSE <<"integer literal">>))
         ELSE PState(Tail(stream),
                     <<base10_parse(Head(stream)), UnitOfSuffix(Head(stream).suf)>>,
                     "ok")
    ELSE PState(stream, None,
                LookaheadError(stream, <<"integer literal", "floating point literal">>))

\* The three comparators Latency::parse accepts, in the order it peeks them.
Comparators == <<"<=", "<", "=">>

\* NormalizeTarget dividing milliseconds by 100.
NormalizeTarget_Hundred(target_seconds, unit) ==
    IF unit = Some(Seconds) THEN Some(target_seconds)
    ELSE IF unit = Some(Milliseconds)
         THEN Some(DecimalDiv(target_seconds, Decimal_from(100)))
         ELSE None

\* match unit { Seconds => t, Milliseconds => t / 1000, _ => Err }
NormalizeTarget(target_seconds, unit) ==
    IF unit = Some(Seconds) THEN Some(target_seconds)
    ELSE IF unit = Some(Milliseconds)
         THEN Some(DecimalDiv(target_seconds, Decimal_from(1000)))
         ELSE None

\* The fraction a percentage literal stands for.
PercentToFraction(d) == DecimalDiv(d, Decimal_from(100))

\* impl Parse for Latency, on the stream that starts with the latency keyword,
\* written as one operator per statement: each takes the results of the
\* statements before it.  outer is what is left of the outer stream.

ErrUnit == "expected unit of time (s or ms)"

\* Ok(Latency { target_seconds, percentile }), or the error of `match unit`.
Latency_result(outer, percentile, target_seconds) ==
    IF target_seconds = None
    THEN PState(outer, None, ErrUnit)
    ELSE PState(outer,
                [target_seconds |-> target_seconds[1], percentile |-> percentile],
                "ok")

\* let IntOrFloat(target_seconds, unit) = content.parse()?; match unit { ... }
Latency_target(outer, percentile, t) ==
    IF t.res # "ok" THEN PState(outer, None, t.res)
    ELSE Latency_result(outer, percentile, NormalizeTarget(t.value[1], t.value[2]))

\* The lookahead for <=, < or =, on the stream after the % sign.
Latency_comparator(outer, percentile, pc) ==
    IF pc.res # "ok" THEN PState(outer, None, pc.res)
    ELSE IF ~ \E i \in 1..Len(Comparators) : peek_punct(pc.rest, Comparators[i])
    THEN PState(outer, None, LookaheadError(pc.rest, Comparators))
    ELSE Latency_target(outer, percentile, IntOrFloat_parse(Tail(pc.rest)))

\* let percentile = content.parse::<IntOrFloat>()?.0 / Decimal::from(100); then %
Latency_percentile(outer, p) ==
    IF p.res # "ok" THEN PState(outer, None, p.res)
    ELSE Latency_comparator(outer, PercentToFraction(p.value[1]),
                            parse_punct(p.rest, "%"))

\* syn::parenthesized!(content in input)
Latency_content(g) ==
    IF g.res # "ok" THEN PState(g.rest, None, g.res)
    ELSE Latency_percentile(g.rest, IntOrFloat_parse(g.value))

Latency_parse(stream) == Latency_content(parenthesized(Tail(stream)))

\* Alerts::default()
Alerts_default == [success_rate |-> None, latency |-> None]

\* The names the alerts lookahead lists when no arm matches.
AlertsExpected == <<"success_rate", "latency", ",">>

\* The arms of the loop of Alerts::parse, on st = PState(content, alerts, _).

\* content.parse::<Token![%]>()?; alerts.success_rate = Some(success_rate)
SuccessRate_percent(st, success_rate, pc) ==
    IF pc.res # "ok" THEN PState(pc.rest, st.value, pc.res)
    ELSE PState(pc.rest, [st.value EXCEPT !.success_rate = Some(success_rate)],
                "parsing")

\* let success_rate = content.parse::<IntOrFloat>()?.0 / Decimal::from(100)
SuccessRate_value(st, n) ==
    IF n.res # "ok" THEN PState(n.rest, st.value, n.res)
    ELSE SuccessRate_percent(st, PercentToFraction(n.value[1]),
                             parse_punct(n.rest, "%"))

\* content.parse::<Token![=]>()?
SuccessRate_eq(st, eq) ==
    IF eq.res # "ok" THEN PState(eq.rest, st.value, eq.res)
    ELSE SuccessRate_value(st, IntOrFloat_parse(eq.rest))

SuccessRateArm(st) == SuccessRate_eq(st, parse_punct(Tail(st.rest), "="))

\* alerts.latency = Some(content.parse()?)
Latency_store(st, l) ==
    IF l.res # "ok" THEN PState(l.rest, st.value, l.res)
    ELSE PState(l.rest, [st.value EXCEPT !.latency = Some(l.value)], "parsing")

LatencyArm(st) == Latency_store(st, Latency_parse(st.rest))

AlertsCommaArm(st) == PState(Tail(st.rest), st.value, "parsing")

AlertsUnexpectedArm(st) ==
    PState(st.rest, st.value, LookaheadError(st.rest, AlertsExpected))

AlertsEnd(st) == PState(st.rest, st.value, "ok")

\* One pass of `while !content.is_empty() { ... }`, or the Ok(alerts) after it.
AlertsLoop(st) ==
    IF st.rest = <<>> THEN AlertsEnd(st)
    ELSE IF peek_kw(st.rest, "success_rate") THEN SuccessRateArm(st)
    ELSE IF peek_kw(st.rest, "latency") THEN LatencyArm(st)
    ELSE IF peek_punct(st.rest, ",") THEN AlertsCommaArm(st)
    ELSE AlertsUnexpectedArm(st)

RECURSIVE AlertsRun(_)
AlertsRun(st) == IF st.res # "parsing" THEN st ELSE AlertsRun(AlertsLoop(st))

\* impl Parse for Alerts: rest is what is left of the outer stream.
Alerts_result(outer, r) == PState(outer, r.value, r.res)

Alerts_content(g) ==
    IF g.res # "ok" THEN PState(g.rest, None, g.res)
    ELSE Alerts_result(g.rest, AlertsRun(PState(g.value, Alerts_default, "parsing")))

Alerts_parse(stream) == Alerts_content(parenthesized(stream))

---------------------------------------------------------------------------
\* The entry lists the model hands to Alerts::parse.

Entry(kind, p, cmp, r) == [kind |-> kind, p |-> p, cmp |-> cmp, r |-> r]
NoLit == LitInt(0, "")

\* Percentage literals: 99, 99.9, 50.
PercentLits == {LitInt(99, ""), LitFloat(999, 1, ""), LitInt(50, "")}
\* Target literals: 200ms, 1s, 0.5s, 10 (no unit), 10m and 2.5h (unknown units).
TargetLits == {LitInt(200, "ms"), LitInt(1, "s"), LitFloat(5, 1, "s"),
               LitInt(10, ""), LitInt(10, "m"), LitFloat(25, 1, "h")}
\* The comparators written, ">" being one the grammar does not have.
WrittenComparators == {"<=", "<", "=", ">"}

SuccessRateEntries == {Entry("success_rate", p, "", NoLit) : p \in PercentLits}
LatencyEntries ==
    {Entry("latency", p, "<", LitInt(200, "ms")) : p \in PercentLits}
    \cup {Entry("latency", LitInt(99, ""), c, LitInt(200, "ms")) : c \in WrittenComparators}
    \cup {Entry("latency", LitInt(99, ""), "<", r) : r \in TargetLits}
    \cup {Entry("latency", LitFloat(999, 1, ""), "<=", LitInt(1, "s"))}
OtherEntries == {Entry(k, NoLit, "", NoLit) : k \in {"comma", "other", "latency_bare"}}
Entries == SuccessRateEntries \cup LatencyEntries \cup OtherEntries

\* The tokens an entry is written with.
EntryTokens(e) ==
    CASE e.kind = "success_rate" ->
            <<Ident("success_rate"), Punct("="), e.p, Punct("%")>>
      [] e.kind = "latency" ->
            <<Ident("latency"), Group(<<e.p, Punct("%"), Punct(e.cmp), e.r>>)>>
      [] e.kind = "latency_bare" -> <<Ident("latency")>>
      [] e.kind = "comma" -> <<Punct(",")>>
      [] OTHER -> <<Ident("foo")>>

RECURSIVE AlertsTokens(_)
AlertsTokens(es) ==
    IF es = <<>> THEN <<>> ELSE EntryTokens(Head(es)) \o AlertsTokens(Tail(es))

SeqsUpTo(S, n) == UNION {[1..k -> S] : k \in 0..n}

---------------------------------------------------------------------------
\* Alerts::parse as a state machine: one action per arm of its loop.

AlertsIdle ==
    /\ asource = <<>>
    /\ content = <<>>
    /\ alerts = Alerts_default
    /\ aresult = "idle"

AlertsInit ==
    /\ asource \in SeqsUpTo(Entries, MaxEntries)
    /\ content = AlertsTokens(asource)
    /\ alerts = Alerts_default
    /\ aresult = "parsing"

AlertsApply(st) ==
    /\ content' = st.rest
    /\ alerts' = st.value
    /\ aresult' = st.res
    /\ UNCHANGED <<asource, argsVars, trackerVars>>

AlertsState == PState(content, alerts, aresult)

AlertsSuccessRate ==
    /\ aresult = "parsing"
    /\ peek_kw(content, "success_rate")
    /\ AlertsApply(AlertsLoop(AlertsState))

AlertsLatency ==
    /\ aresult = "parsing"
    /\ peek_kw(content, "latency")
    /\ AlertsApply(AlertsLoop(AlertsState))

AlertsComma ==
    /\ aresult = "parsing"
    /\ peek_punct(content, ",")
    /\ AlertsApply(AlertsLoop(AlertsState))

AlertsUnexpected ==
    /\ aresult = "parsing"
    /\ content # <<>>
    /\ ~ peek_kw(content, "success_rate")
    /\ ~ peek_kw(content, "latency")
    /\ ~ peek_punct(content, ",")
    /\ AlertsApply(AlertsLoop(AlertsState))

AlertsReturn ==
    /\ aresult = "parsing"
    /\ content = <<>>
    /\ AlertsApply(AlertsLoop(AlertsState))

NextAlerts ==
    \/ AlertsSuccessRate
    \/ AlertsLatency
    \/ AlertsComma
    \/ AlertsUnexpected
    \/ AlertsReturn

---------------------------------------------------------------------------
\* impl Parse for Args

\* Args::default()
Args_default ==
    [track_concurrency |-> FALSE, ok_if |-> None, error_if |-> None, alerts |-> None]

\* syn's Expr::parse, for the expressions the model writes: a path expression
\* of one identifier.  No argument the model writes starts with a token that
\* could continue an expression.
Expr_parse(stream) ==
    IF peek_kind(stream, "ident") THEN PState(Tail(stream), Head(stream).v, "ok")
    ELSE IF stream = <<>>
         THEN PState(stream, "", "unexpected end of input, expected expression")
         ELSE PState(stream, "", "expected expression")

\* impl Parse for ExprArg<T>, on the stream that starts with the keyword T.
ExprArg_value(eq) ==
    IF eq.res # "ok" THEN PState(eq.rest, "", eq.res)
    ELSE Expr_parse(eq.rest)

ExprArg_parse(stream) == ExprArg_value(parse_punct(Tail(stream), "="))

ErrSingleOkIf == "expected only a single ok_if argument"
ErrSingleErrorIf == "expected only a single error_if argument"
ErrBoth == "cannot use both ok_if and error_if"
ErrNoAlertsFeature == "feature alerts is required to use alerts"

\* The names the top-level lookahead lists when no arm matches.
ArgsExpected == <<"track_concurrency", "ok_if", "error_if", "alerts", ",">>

\* The arms of the loop of Args::parse, on st = PState(input, args, _).
TrackConcurrencyArm(st) ==
    PState(Tail(st.rest), [st.value EXCEPT !.track_concurrency = TRUE], "parsing")

\* args.ok_if = Some(ok_if.value)
OkIf_store(st, ok_if) ==
    IF ok_if.res # "ok" THEN PState(ok_if.rest, st.value, ok_if.res)
    ELSE PState(ok_if.rest, [st.value EXCEPT !.ok_if = Some(ok_if.value)], "parsing")

\* OkIfArm without its check for an error_if met earlier.
OkIfArm_NoBothCheck(st) ==
    IF is_some(st.value.ok_if) THEN PState(st.rest, st.value, ErrSingleOkIf)
    ELSE OkIf_store(st, ExprArg_parse(st.rest))

OkIfArm(st) ==
    IF is_some(st.value.ok_if) THEN PState(st.rest, st.value, ErrSingleOkIf)
    ELSE IF is_some(st.value.error_if) THEN PState(st.rest, st.value, ErrBoth)
    ELSE OkIf_store(st, ExprArg_parse(st.rest))

\* args.error_if = Some(error_if.value)
ErrorIf_store(st, error_if) ==
    IF error_if.res # "ok" THEN PState(error_if.rest, st.value, error_if.res)
    ELSE PState(error_if.rest, [st.value EXCEPT !.error_if = Some(error_if.value)],
                "parsing")

\* ErrorIfArm reporting a duplicate with the message of the ok_if arm.
ErrorIfArm_OkIfMessage(st) ==
    IF is_some(st.value.error_if) THEN PState(st.rest, st.value, ErrSingleOkIf)
    ELSE IF is_some(st.value.ok_if) THEN PState(st.rest, st.value, ErrBoth)
    ELSE ErrorIf_store(st, ExprArg_parse(st.rest))

ErrorIfArm(st) ==
    IF is_some(st.value.error_if) THEN PState(st.rest, st.value, ErrSingleErrorIf)
    ELSE IF is_some(st.value.ok_if) THEN PState(st.rest, st.value, ErrBoth)
    ELSE ErrorIf_store(st, ExprArg_parse(st.rest))

\* Alerts_store building the Args anew around the alerts it parsed.
Alerts_store_Reset(st, a) ==
    IF a.res # "ok" THEN PState(a.rest, st.value, a.res)
    ELSE PState(a.rest, [Args_default EXCEPT !.alerts = Some(a.value)], "parsing")

\* args.alerts = Some(input.parse()?)
Alerts_store(st, a) ==
    IF a.res # "ok" THEN PState(a.rest, st.value, a.res)
    ELSE PState(a.rest, [st.value EXCEPT !.alerts = Some(a.value)], "parsing")

AlertsArm(st, feature) ==
    IF feature THEN Alerts_store(st, Alerts_parse(Tail(st.rest)))
    ELSE PState(st.rest, st.value, ErrNoAlertsFeature)

CommaArm(st) == PState(Tail(st.rest), st.value, "parsing")

UnexpectedArm(st) == PState(st.rest, st.value, LookaheadError(st.rest, ArgsExpected))

ArgsEnd(st) == PState(st.rest, st.value, "ok")

\* One pass of `while !input.is_empty() { ... }`, or the Ok(args) after it.
ArgsLoop(st, feature) ==
    IF st.rest = <<>> THEN ArgsEnd(st)
    ELSE IF peek_kw(st.rest, "track_concurrency") THEN TrackConcurrencyArm(st)
    ELSE IF peek_kw(st.rest, "ok_if") THEN OkIfArm(st)
    ELSE IF peek_kw(st.rest, "error_if") THEN ErrorIfArm(st)
    ELSE IF peek_kw(st.rest, "alerts") THEN AlertsArm(st, feature)
    ELSE IF peek_punct(st.rest, ",") THEN CommaArm(st)
    ELSE UnexpectedArm(st)

RECURSIVE ArgsRun(_, _)
ArgsRun(st, feature) ==
    IF st.res # "parsing" THEN st ELSE ArgsRun(ArgsLoop(st, feature), feature)

\* Args::parse on a whole token stream.
Args_parse(stream, feature) == ArgsRun(PState(stream, Args_default, "parsing"), feature)

---------------------------------------------------------------------------
\* The argument lists the model hands to Args::parse.

Arg(kind, e, es) == [kind |-> kind, e |-> e, es |-> es]

\* Entry lists of alerts(...) arguments that parse, and ones that do not:
\*   alerts(success_rate = 99.9%)
\*   alerts(latency(99% < 200ms))
\*   alerts(success_rate = 99.9%, latency(99.9% <= 1s))
\*   alerts(latency(50% < 10))
ValidAlertsLists ==
    { <<Entry("success_rate", LitFloat(999, 1, ""), "", NoLit)>>,
      <<Entry("latency", LitInt(99, ""), "<", LitInt(200, "ms"))>>,
      <<Entry("success_rate", LitFloat(999, 1, ""), "", NoLit),
        Entry("comma", NoLit, "", NoLit),
        Entry("latency", LitFloat(999, 1, ""), "<=", LitInt(1, "s"))>> }
InvalidAlertsLists ==
    { <<Entry("latency", LitInt(50, ""), "<", LitInt(10, ""))>> }

Exprs == {"a", "b"}

Arguments ==
    {Arg("track_concurrency", "", <<>>), Arg("comma", "", <<>>),
     Arg("other", "", <<>>), Arg("ok_if_noeq", "a", <<>>)}
    \cup {Arg("ok_if", e, <<>>) : e \in Exprs}
    \cup {Arg("error_if", e, <<>>) : e \in Exprs}
    \cup {Arg("alerts", "", es) : es \in ValidAlertsLists \cup InvalidAlertsLists}

\* The tokens an argument is written with.
ArgTokens(a) ==
    CASE a.kind = "track_concurrency" -> <<Ident("track_concurrency")>>
      [] a.kind = "ok_if" -> <<Ident("ok_if"), Punct("="), Ident(a.e)>>
      [] a.kind = "error_if" -> <<Ident("error_if"), Punct("="), Ident(a.e)>>
      [] a.kind = "ok_if_noeq" -> <<Ident("ok_if"), Ident(a.e)>>
      [] a.kind = "alerts" -> <<Ident("alerts"), Group(AlertsTokens(a.es))>>
      [] a.kind = "comma" -> <<Punct(",")>>
      [] OTHER -> <<Ident("foo")>>

RECURSIVE ArgsTokens(_)
ArgsTokens(as) ==
    IF as = <<>> THEN <<>> ELSE ArgTokens(Head(as)) \o ArgsTokens(Tail(as))

---------------------------------------------------------------------------
\* Args::parse as a state machine: one action per arm of its loop.

ArgsIdle ==
    /\ alerts_feature = FALSE
    /\ source = <<>>
    /\ input = <<>>
    /\ args = Args_default
    /\ result = "idle"

ArgsInit ==
    /\ alerts_feature \in BOOLEAN
    /\ source \in SeqsUpTo(Arguments, MaxArgs)
    /\ input = ArgsTokens(source)
    /\ args = Args_default
    /\ result = "parsing"

ArgsApply(st) ==
    /\ input' = st.rest
    /\ args' = st.value
    /\ result' = st.res
    /\ UNCHANGED <<alerts_feature, source, alertsVars, trackerVars>>

ArgsState == PState(input, args, result)

ParseTrackConcurrency ==
    /\ result = "parsing"
    /\ peek_kw(input, "track_concurrency")
    /\ ArgsApply(ArgsLoop(ArgsState, alerts_feature))

ParseOkIf ==
    /\ result = "parsing"
    /\ peek_kw(input, "ok_if")
    /\ ArgsApply(ArgsLoop(ArgsState, alerts_feature))

ParseErrorIf ==
    /\ result = "parsing"
    /\ peek_kw(input, "error_if")
    /\ ArgsApply(ArgsLoop(ArgsState, alerts_feature))

ParseAlerts ==
    /\ result = "parsing"
    /\ peek_kw(input, "alerts")
    /\ ArgsApply(ArgsLoop(ArgsState, alerts_feature))

ParseComma ==
    /\ result = "parsing"
    /\ peek_punct(input, ",")
    /\ ArgsApply(ArgsLoop(ArgsState, alerts_feature))

ParseUnexpected ==
    /\ result = "parsing"
    /\ input # <<>>
    /\ \A i \in 1..4 : ~ peek_kw(input, ArgsExpected[i])
    /\ ~ peek_punct(input, ",")
    /\ ArgsApply(ArgsLoop(ArgsState, alerts_feature))

ParseReturn ==
    /\ result = "parsing"
    /\ input = <<>>
    /\ ArgsApply(ArgsLoop(ArgsState, alerts_feature))

Next ==
    \/ ParseTrackConcurrency
    \/ ParseOkIf
    \/ ParseErrorIf
    \/ ParseAlerts
    \/ ParseComma
    \/ ParseUnexpected
    \/ ParseReturn

---------------------------------------------------------------------------
\* OpenTelemetryTracker

FUNCTION_KEY == "function"
MODULE_KEY == "module"

KeyValue(k, v) == <<k, v>>

\* The call sites (function, module) of the instrumented functions, the
\* readings of the clock, and the label slices callers pass to finish: none,
\* an outcome alone, and the outcome with the labels of call site (f, m).
CallSites == {<<"f", "m">>, <<"g", "n">>}
Instants == 0..1
CounterLabels ==
    { <<>>,
      <<KeyValue("result", "ok")>>,
      <<KeyValue(FUNCTION_KEY, "f"), KeyValue(MODULE_KEY, "m"),
        KeyValue("result", "error")>> }
Callers == 1..MaxCallers

\* let function_and_module_labels = [KeyValue::new(FUNCTION_KEY, function), ...]
FunctionAndModuleLabels(function, module) ==
    <<KeyValue(FUNCTION_KEY, function), KeyValue(MODULE_KEY, module)>>

LabelSets == {FunctionAndModuleLabels(s[1], s[2]) : s \in CallSites}

\* One call on an instrument, as the backend sees it.
Emission(metric, value, labels, call) ==
    [metric |-> metric, value |-> value, labels |-> labels, call |-> call]

\* UpDownCounter::add on the shared gauge: atomic.
UpDownCounter_add(g, value, labels) == [g EXCEPT ![labels] = @ + value]

NoTracker ==
    [state |-> "none", function |-> "", module |-> "", concurrency_tracker |-> FALSE,
     function_and_module_labels |-> <<>>, start |-> 0]

\* The Self that start returns.
StartTracker(function, module, track_concurrency, instant) ==
    [state |-> "started", function |-> function, module |-> module,
     concurrency_tracker |-> track_concurrency,
     function_and_module_labels |-> FunctionAndModuleLabels(function, module),
     start |-> instant]

\* StartEmissions with the function and module values swapped.
StartEmissions_Swapped(function, module, track_concurrency) ==
    IF track_concurrency
    THEN <<Emission("gauge", 1, FunctionAndModuleLabels(module, function), "start")>>
    ELSE <<>>

\* The instrument calls start makes.
StartEmissions(function, module, track_concurrency) ==
    IF track_concurrency
    THEN <<Emission("gauge", 1, FunctionAndModuleLabels(function, module), "start")>>
    ELSE <<>>

\* The gauge after start.
StartGauge(g, function, module, track_concurrency) ==
    IF track_concurrency
    THEN UpDownCounter_add(g, 1, FunctionAndModuleLabels(function, module))
    ELSE g

\* FinishEmissions without the decrement of the gauge.
FinishEmissions_NoDecrement(self, counter_labels, duration) ==
    <<Emission("counter", 1, counter_labels, "finish"),
      Emission("histogram", duration, self.function_and_module_labels, "finish")>>

\* FinishEmissions recording the latency with the labels of the counter too.
FinishEmissions_OutcomeOnLatency(self, counter_labels, duration) ==
    <<Emission("counter", 1, counter_labels, "finish"),
      Emission("histogram", duration,
               self.function_and_module_labels \o counter_labels, "finish")>>
    \o (IF self.concurrency_tracker
        THEN <<Emission("gauge", -1, self.function_and_module_labels, "finish")>>
        ELSE <<>>)

\* The instrument calls finish makes, in order.
FinishEmissions(self, counter_labels, duration) ==
    <<Emission("counter", 1, counter_labels, "finish"),
      Emission("histogram", duration, self.function_and_module_labels, "finish")>>
    \o (IF self.concurrency_tracker
        THEN <<Emission("gauge", -1, self.function_and_module_labels, "finish")>>
        ELSE <<>>)

\* FinishGauge decrementing whether or not start incremented.
FinishGauge_Always(g, self) ==
    UpDownCounter_add(g, -1, self.function_and_module_labels)

\* The gauge after finish.
FinishGauge(g, self) ==
    IF self.concurrency_tracker
    THEN UpDownCounter_add(g, -1, self.function_and_module_labels)
    ELSE g

TrackerIdle ==
    /\ now = 0
    /\ trackers = <<>>
    /\ gauge = <<>>
    /\ emitted = <<>>

TrackerInit ==
    /\ now = 0
    /\ trackers = [c \in Callers |-> NoTracker]
    /\ gauge = [l \in LabelSets |-> 0]
    /\ emitted = [c \in Callers |-> <<>>]

\* fn start(function, module, track_concurrency) -> Self
Start(c, function, module, track_concurrency) ==
    /\ trackers[c].state = "none"
    /\ gauge' = StartGauge(gauge, function, module, track_concurrency)
    /\ emitted' = [emitted EXCEPT ![c] = @ \o StartEmissions(function, module, track_concurrency)]
    /\ trackers' = [trackers EXCEPT ![c] = StartTracker(function, module, track_concurrency, now)]
    /\ UNCHANGED <<now, argsVars, alertsVars>>

\* fn finish(self, counter_labels): consumes the tracker.
Finish(c, counter_labels) ==
    /\ trackers[c].state = "started"
    /\ emitted' = [emitted EXCEPT ![c] = @ \o FinishEmissions(trackers[c], counter_labels, now - trackers[c].start)]
    /\ gauge' = FinishGauge(gauge, trackers[c])
    /\ trackers' = [trackers EXCEPT ![c].state = "finished"]
    /\ UNCHANGED <<now, argsVars, alertsVars>>

\* Time passes.
Tick ==
    /\ now + 1 \in Instants
    /\ now' = now + 1
    /\ UNCHANGED <<trackers, gauge, emitted, argsVars, alertsVars>>

StartCall ==
    \E c \in Callers, s \in CallSites, track_concurrency \in BOOLEAN :
        Start(c, s[1], s[2], track_concurrency)

FinishCall ==
    \E c \in Callers, counter_labels \in CounterLabels : Finish(c, counter_labels)

NextTracker ==
    \/ StartCall
    \/ FinishCall
    \/ Tick

---------------------------------------------------------------------------
\* Specifications: the parser of the attribute arguments, the parser of the
\* alerts entries on its own, and the tracker under concurrent callers.

Init == ArgsInit /\ AlertsIdle /\ TrackerIdle
Spec == Init /\ [][Next]_vars

InitAlerts == ArgsIdle /\ AlertsInit /\ TrackerIdle
SpecAlerts == InitAlerts /\ [][NextAlerts]_vars

InitTracker == ArgsIdle /\ AlertsIdle /\ TrackerInit
SpecTracker == InitTracker /\ [][NextTracker]_vars

---------------------------------------------------------------------------
\* Properties of Args::parse (specification Spec).

Finished == result \notin {"parsing", "idle"}

\* The tokens of the arguments from position k on.
TokensFrom(k) == ArgsTokens(SubSeq(source, k, Len(source)))

\* An argument that parses without error and is neither ok_if nor error_if.
Benign(a) ==
    \/ a.kind \in {"track_concurrency", "comma"}
    \/ a.kind = "alerts" /\ alerts_feature /\ a.es \in ValidAlertsLists

Min(i, j) == IF i < j THEN i ELSE j
Max(i, j) == IF i < j THEN j ELSE i

\* C1: an argument list that supplies both ok_if = <expr> and error_if =
\* <expr>, in either order, never parses to an Args value; and when nothing
\* before the second of the two is rejected itself, the error returned is
\* "cannot use both ok_if and error_if", raised at the second keyword (the
\* stream still stands before it and only the first predicate is stored).
C1_BothRejected ==
    Finished =>
        \A i, j \in DOMAIN source :
            (source[i].kind = "ok_if" /\ source[j].kind = "error_if") =>
                /\ result # "ok"
                /\ (\A n \in 1..(Max(i, j) - 1) : n # Min(i, j) => Benign(source[n]))
                   => /\ result = ErrBoth
                      /\ input = TokensFrom(Max(i, j))
                      /\ is_some(args.ok_if) = (i < j)
                      /\ is_some(args.error_if) = (j < i)

\* C1 witness: error_if = <expr> first, ok_if = <expr> later, rejected with
\* the "cannot use both" error.
C1_Witness ==
    /\ result = ErrBoth
    /\ \E i, j \in DOMAIN source :
          i < j /\ source[i].kind = "error_if" /\ source[j].kind = "ok_if"

\* The duplicate error that names keyword kind.
ErrSingle(kind) == IF kind = "ok_if" THEN ErrSingleOkIf ELSE ErrSingleErrorIf

\* C2: an argument list in which ok_if appears twice, or error_if appears
\* twice, never parses to an Args value; and when nothing before the second
\* occurrence is rejected itself, the error returned is "expected only a
\* single <name> argument" naming the duplicated keyword, raised at the
\* second occurrence.
C2_DuplicateRejected ==
    Finished =>
        \A i, j \in DOMAIN source :
            (i < j /\ source[i].kind \in {"ok_if", "error_if"}
                   /\ source[j].kind = source[i].kind) =>
                /\ result # "ok"
                /\ (\A n \in 1..(j - 1) : n # i => Benign(source[n]))
                   => /\ result = ErrSingle(source[i].kind)
                      /\ input = TokensFrom(j)

\* C2 witness: error_if twice, rejected with the single-error_if error.
C2_Witness ==
    /\ result = ErrSingleErrorIf
    /\ \E i, j \in DOMAIN source :
          i < j /\ source[i].kind = "error_if" /\ source[j].kind = "error_if"

\* No keyword argument is written twice (commas aside).
DistinctKeywords ==
    \A i, j \in DOMAIN source :
        (i # j /\ source[i].kind = source[j].kind) => source[i].kind = "comma"

\* The argument list with its arguments in the order p.
Permuted(p) == [n \in DOMAIN source |-> source[p[n]]]

\* C3: for a valid argument list of distinct keyword arguments, every
\* permutation of the arguments parses, and parses to the same Args value.
C3_OrderIndependent ==
    (result = "ok" /\ DistinctKeywords) =>
        \A p \in Permutations(DOMAIN source) :
            Args_parse(ArgsTokens(Permuted(p)), alerts_feature)
                = PState(<<>>, args, "ok")

\* C3 witness: track_concurrency, a predicate and alerts, all three given and
\* parsed, the predicate not written last.
C3_Witness ==
    /\ result = "ok"
    /\ DistinctKeywords
    /\ args.track_concurrency
    /\ is_some(args.ok_if) \/ is_some(args.error_if)
    /\ is_some(args.alerts)
    /\ source[Len(source)].kind \in {"track_concurrency", "alerts"}

---------------------------------------------------------------------------
\* Properties of Alerts::parse (specification SpecAlerts).

AlertsFinished == aresult \notin {"parsing", "idle"}

\* An entry that parses without error.
ValidEntry(e) ==
    \/ e.kind \in {"comma", "success_rate"}
    \/ e.kind = "latency" /\ e.cmp \in {"<=", "<", "="} /\ e.r.suf \in {"s", "ms"}

\* C7: a latency target literal whose suffix is missing or is not s or ms is
\* rejected with "expected unit of time (s or ms)", and no Latency value is
\* stored for it (nothing before that entry being rejected itself).
C7_UnitRequired ==
    AlertsFinished =>
        \A i \in DOMAIN asource :
            (/\ asource[i].kind = "latency"
             /\ asource[i].cmp \in {"<=", "<", "="}
             /\ asource[i].r.suf \notin {"s", "ms"}
             /\ \A n \in 1..(i - 1) : ValidEntry(asource[n]))
            => /\ aresult = ErrUnit
               /\ \A n \in 1..(i - 1) : asource[n].kind # "latency"
                  => alerts.latency = None

\* C8: a successfully parsed alerts list holds each entry (success_rate,
\* latency) at most once.
C8_AtMostOnce ==
    aresult = "ok" =>
        \A i, j \in DOMAIN asource :
            (i # j /\ asource[i].kind = asource[j].kind)
            => asource[i].kind \notin {"success_rate", "latency"}

\* d * n, exactly.
DecimalTimes(d, n) == Decimal(d.m * n, d.sc)

\* The value of a literal as written.
LitValue(lit) == Decimal(lit.m, lit.sc)

\* Entry i is the last of its kind in the list.
LastOfKind(i) ==
    \A n \in DOMAIN asource : n > i => asource[n].kind # asource[i].kind

\* C9: in a parsed alerts list, success_rate is the percentage literal
\* divided by 100, the latency percentile is its percentage literal divided
\* by 100, and the latency target is the literal in seconds (an ms literal
\* divided by 1000, an s literal unchanged): exactly, and whichever of <, <=
\* and = is written.  An entry that is not written stays None.
C9_Normalized ==
    aresult = "ok" =>
        /\ (\A n \in DOMAIN asource : asource[n].kind # "success_rate")
           => alerts.success_rate = None
        /\ (\A n \in DOMAIN asource : asource[n].kind # "latency")
           => alerts.latency = None
        /\ \A i \in DOMAIN asource :
            /\ (asource[i].kind = "success_rate" /\ LastOfKind(i)) =>
                /\ is_some(alerts.success_rate)
                /\ DecimalEq(DecimalTimes(alerts.success_rate[1], 100),
                             LitValue(asource[i].p))
            /\ (asource[i].kind = "latency" /\ LastOfKind(i)) =>
                /\ is_some(alerts.latency)
                /\ DecimalEq(DecimalTimes(alerts.latency[1].percentile, 100),
                             LitValue(asource[i].p))
                /\ asource[i].r.suf = "s" =>
                    DecimalEq(alerts.latency[1].target_seconds, LitValue(asource[i].r))
                /\ asource[i].r.suf = "ms" =>
                    DecimalEq(DecimalTimes(alerts.latency[1].target_seconds, 1000),
                              LitValue(asource[i].r))

\* C9 witness: success_rate = 99.9%, latency(99% < 200ms) parsed to 0.999 and
\* {percentile 0.99, target_seconds 0.2}.
C9_Witness ==
    /\ aresult = "ok"
    /\ asource = <<Entry("success_rate", LitFloat(999, 1, ""), "", NoLit),
                   Entry("comma", NoLit, "", NoLit),
                   Entry("latency", LitInt(99, ""), "<", LitInt(200, "ms"))>>
    /\ DecimalEq(alerts.success_rate[1], Decimal(999, 3))
    /\ DecimalEq(alerts.latency[1].percentile, Decimal(99, 2))
    /\ DecimalEq(alerts.latency[1].target_seconds, Decimal(2, 1))

---------------------------------------------------------------------------
\* Properties of the tracker (specification SpecTracker).

\* The positions of log that hold an emission on metric with value.
Emissions(log, metric, value) ==
    {i \in DOMAIN log : log[i].metric = metric /\ log[i].value = value}
OnMetric(log, metric) == {i \in DOMAIN log : log[i].metric = metric}

Range(f) == {f[i] : i \in DOMAIN f}

\* The labels that identify the call site of caller c's tracker.
SiteLabels(c) == FunctionAndModuleLabels(trackers[c].function, trackers[c].module)

\* C4: a tracker started with track_concurrency = true and then finished has
\* made exactly one +1 on the gauge, at start, and at finish exactly one
\* counter increment of 1, one histogram observation and one -1 on the gauge
\* under the labels of the +1: four instrument calls in all.
C4_StartedThenFinished ==
    \A c \in Callers :
        (trackers[c].state = "finished" /\ trackers[c].concurrency_tracker) =>
            LET log == emitted[c] IN
            /\ Len(log) = 4
            /\ Cardinality(Emissions(log, "gauge", 1)) = 1
            /\ Cardinality(Emissions(log, "gauge", -1)) = 1
            /\ Cardinality(Emissions(log, "counter", 1)) = 1
            /\ Cardinality(OnMetric(log, "histogram")) = 1
            /\ \A i \in DOMAIN log :
                  (log[i].call = "start") = (log[i].metric = "gauge" /\ log[i].value = 1)
            /\ \A i, j \in OnMetric(log, "gauge") : log[i].labels = log[j].labels

\* C4 witness: such a tracker, finished.
C4_Witness ==
    \E c \in Callers :
        /\ trackers[c].state = "finished"
        /\ trackers[c].concurrency_tracker
        /\ Len(emitted[c]) = 4

\* What a step appended to caller c's log.
Appended(c) == SubSeq(emitted'[c], Len(emitted[c]) + 1, Len(emitted'[c]))

\* C5: every finish call records the latency under the {function, module}
\* labels captured at start and nothing else, and increments the counter
\* under exactly the labels passed to finish.
C5_LatencyWithoutOutcome ==
    [][\A c \in Callers, counter_labels \in CounterLabels :
          Finish(c, counter_labels) =>
              /\ \E i \in DOMAIN Appended(c) : Appended(c)[i].metric = "histogram"
              /\ \E i \in DOMAIN Appended(c) : Appended(c)[i].metric = "counter"
              /\ \A i \in DOMAIN Appended(c) :
                    /\ Appended(c)[i].metric = "histogram" =>
                          Appended(c)[i].labels = trackers[c].function_and_module_labels
                    /\ Appended(c)[i].metric = "counter" =>
                          Appended(c)[i].labels = counter_labels]_vars

\* C5 witness: a finish with outcome labels passed, and the latency recorded
\* without them.
C5_Witness ==
    \E c \in Callers :
        /\ trackers[c].state = "finished"
        /\ \E i, j \in DOMAIN emitted[c] :
              /\ emitted[c][i].metric = "counter"
              /\ emitted[c][i].labels = <<KeyValue("result", "ok")>>
              /\ emitted[c][j].metric = "histogram"
              /\ KeyValue("result", "ok") \notin Range(emitted[c][j].labels)

\* An emission carries the function and module labels of caller c's site.
CarriesSite(c, e) ==
    /\ KeyValue(FUNCTION_KEY, trackers[c].function) \in Range(e.labels)
    /\ KeyValue(MODULE_KEY, trackers[c].module) \in Range(e.labels)

\* C6 as stated: every emission of a tracker, the counter increment included,
\* carries the function and module labels of the call site, whatever labels
\* the caller passes to finish.
C6_EveryEmissionCarriesSite ==
    \A c \in Callers : \A i \in DOMAIN emitted[c] : CarriesSite(c, emitted[c][i])

\* C6 amended: the gauge and histogram emissions carry exactly the function
\* and module labels of the call site; the counter increment carries the
\* labels the caller passed and no label of the tracker's own, so it carries
\* function and module only when the caller passes them.
C6_SiteLabelsOnGaugeAndHistogram ==
    \A c \in Callers : \A i \in DOMAIN emitted[c] :
        /\ emitted[c][i].metric \in {"gauge", "histogram"} =>
              /\ emitted[c][i].labels = SiteLabels(c)
              /\ CarriesSite(c, emitted[c][i])
        /\ emitted[c][i].metric = "counter" =>
              emitted[c][i].labels \in CounterLabels

\* C6 witness: a finished tracker that tracked concurrency, its counter
\* increment passed no labels.
C6_Witness ==
    \E c \in Callers :
        /\ trackers[c].state = "finished"
        /\ trackers[c].concurrency_tracker
        /\ \E i \in DOMAIN emitted[c] :
              emitted[c][i].metric = "counter" /\ emitted[c][i].labels = <<>>

\* The trackers on label set l that incremented the gauge and are not finished.
InFlight(l) ==
    {c \in Callers : /\ trackers[c].state = "started"
                     /\ trackers[c].concurrency_tracker
                     /\ trackers[c].function_and_module_labels = l}

\* C10: in every reachable state the gauge of each {function, module} label
\* set is the number of trackers on it that were started with
\* track_concurrency = true and are not yet finished; it is never negative,
\* and it is zero once no started tracker is left unfinished.
C10_GaugeCountsInFlight ==
    \A l \in LabelSets :
        /\ gauge[l] = Cardinality(InFlight(l))
        /\ gauge[l] >= 0
        /\ (\A c \in Callers : trackers[c].state # "started") => gauge[l] = 0

\* C10 witness: two callers in flight on the same label set.
C10_Witness ==
    \E l \in LabelSets : gauge[l] = 2 /\ Cardinality(InFlight(l)) = 2

====
